---- MODULE Spec2Model ----
(***************************************************************************)
(* WriteAheadState (src/src/state/was.go): a session that applies          *)
(* transactions against a working state, buffers transactions, receipts    *)
(* and logs, and persists them with a staged, non-atomic Commit.            *)
(*                                                                         *)
(* The session's collaborators (the state database, the execution engine,  *)
(* the key-value store, the codec) are modelled by what the session         *)
(* observes of them at its call sites.                                      *)
(***************************************************************************)
EXTENDS Integers, Sequences, FiniteSets, TLC

(* ------------------------------ bounds --------------------------------- *)
\* highest account nonce explored
MaxNonce == 2
\* successful Reset calls and Commit calls explored, together
MaxCalls == 3

(* --------------------------- configuration ----------------------------- *)
\* was.gasLimit, the constructor's gasLimit argument
GasLimit == 3

Senders == {"a"}
\* msg.To(): "nil" is a contract creation, "c" a call to an account
Recipients == {"nil", "c"}
\* msg.Gas(), the gas limit a transaction carries
TxGas == {2}
\* the payload: what the transaction does when it executes
Payloads == {"plain", "log", "revert"}
BlockHashes == {"b1"}
\* the transactions a caller may hand to ApplyTransaction; sigOK tells whether
\* the signer can derive the sender from the signature
Transactions ==
    {t \in [sigOK : {TRUE}, from : Senders, nonce : 0..(MaxNonce - 1),
            to : Recipients, gas : TxGas, data : Payloads] :
        <<t.to, t.data>> \in {<<"nil", "plain">>, <<"nil", "revert">>, <<"c", "log">>}}
    \cup
    [sigOK : {FALSE}, from : Senders, nonce : 0..(MaxNonce - 1),
     to : {"c"}, gas : TxGas, data : {"plain"}]

(* ------------------------------ hashing -------------------------------- *)
\* tx.Hash(): a collision-free digest of the signed content
Hash(tx) == <<tx.from, tx.nonce, tx.to, tx.gas, tx.data>>

\* (&ethTypes.Transaction{}).Hash(), the head pointer of an empty buffer
EmptyTxHash == <<"none", 0, "nil", 0, "">>

\* the root hash of a working state: a collision-free digest of its content
Root(st) == [nonces |-> st]

\* common.Hash{}
ZeroHash == [nonces |-> [s \in Senders |-> -1]]

\* the root the session is constructed on
InitialState == [s \in Senders |-> 0]

\* crypto.CreateAddress(origin, nonce)
CreateAddress(origin, nonce) == <<"contract", origin, nonce>>

\* the zero common.Address a receipt keeps when no contract was created
ZeroAddress == <<"contract", "none", 0>>

(* ------------------------------- codec --------------------------------- *)
\* rlp.EncodeToBytes(tx): the wire form of the transaction's fields
EncodeTx(tx) == <<"rlp", tx.nonce, tx.gas, tx.to, tx.data, tx.from>>

\* ethTypes.CreateBloom: a summary folded from the receipt's logs
CreateBloom(logs) == {logs[i].txHash : i \in 1..Len(logs)}

\* rlp.EncodeToBytes((*ReceiptForStorage)(receipt)): the storage form keeps the
\* post-state root, cumulative gas, bloom, tx hash, contract address, logs and
\* gas used
EncodeReceipt(r) ==
    <<"rlp", r.PostState, r.CumulativeGasUsed, r.Bloom, r.TxHash,
      r.ContractAddress, r.Logs, r.GasUsed>>

(* ------------------------------- state --------------------------------- *)
VARIABLES
    txIndex,        \* was.txIndex
    transactions,   \* was.transactions
    receipts,       \* was.receipts
    allLogs,        \* was.allLogs
    totalUsedGas,   \* was.totalUsedGas (0 while the pointer is nil)
    gp,             \* was.gp (0 while the pointer is nil)
    gasSet,         \* FALSE while was.gp and was.totalUsedGas are nil
    stNonce,        \* was.ethState: the working state's account nonces
    stLogs,         \* was.ethState: the logs the working state holds
    trieMem,        \* roots held by the state database's node cache
    trieDisk,       \* roots whose trie nodes were flushed to was.db
    dbRoot,         \* was.db[rootKey]: {} or {root}
    dbHead,         \* was.db[headTxKey]: {} or {hash}
    dbTxs,          \* was.db: <<tx hash, data>> entries
    dbReceipts,     \* was.db: <<receiptsPrefix + tx hash, data>> entries
    last,           \* the last call: operation, error, returned hash, the
                    \* stages that completed when it is a Commit, and whether
                    \* it reached ethState.Prepare
    applied,        \* successful ApplyTransaction calls since the last Reset
    gasSum,         \* gas the engine reported for them
    committed,      \* Commit was called since the last Reset
    lateApplied,    \* ... and a transaction was applied after that Commit
    applyArgs,      \* the txIndex and blockHash arguments of those calls
    epochRoot,      \* the root the working state was last bound to
    calls           \* successful Reset calls and Commit calls so far

sessionVars == <<txIndex, transactions, receipts, allLogs, totalUsedGas, gp, gasSet>>
stateVars == <<stNonce, stLogs>>
storeVars == <<trieMem, trieDisk, dbRoot, dbHead, dbTxs, dbReceipts>>
histVars == <<last, applied, gasSum, committed, lateApplied, applyArgs, epochRoot, calls>>
vars == <<sessionVars, stateVars, storeVars, histVars>>

Call(op, err, ret, done, prep) ==
    [op |-> op, err |-> err, ret |-> ret, stages |-> done, prepared |-> prep]

\* NewWriteAheadState: the working state is opened on the initial root; the
\* buffers, the index, the gas pool and the gas counter are left at their zero
\* values
Init ==
    /\ txIndex = 0
    /\ transactions = <<>>
    /\ receipts = <<>>
    /\ allLogs = <<>>
    /\ totalUsedGas = 0
    /\ gp = 0
    /\ gasSet = FALSE
    /\ stNonce = InitialState
    /\ stLogs = <<>>
    /\ trieMem = {}
    /\ trieDisk = {Root(InitialState)}
    /\ dbRoot = {}
    /\ dbHead = {}
    /\ dbTxs = {}
    /\ dbReceipts = {}
    /\ last = Call("New", "nil", ZeroHash, <<>>, FALSE)
    /\ applied = 0
    /\ gasSum = 0
    /\ committed = FALSE
    /\ lateApplied = FALSE
    /\ applyArgs = <<>>
    /\ epochRoot = Root(InitialState)
    /\ calls = 0


\* the txIndex argument a caller may pass: the position the transaction will
\* take in the buffer, or 0 whatever the position
TxIndexes == {0, txIndex}

(* ------------------------------- Reset --------------------------------- *)
\* the roots a caller may pass to Reset
Roots == {Root(st) : st \in [Senders -> 0..MaxNonce]}

\* was.ethState.Reset(root) opens the trie at root: it fails when the state
\* database cannot resolve the root
StateResetErr(root) == IF root \in trieMem \cup trieDisk THEN "nil" ELSE "MissingTrieNode"

\* Reset that forgets the log buffer and the gas pool
ClearSessionKeepLogs ==
    /\ txIndex' = 0
    /\ transactions' = <<>>
    /\ receipts' = <<>>
    /\ allLogs' = allLogs
    /\ totalUsedGas' = 0
    /\ gp' = gp
    /\ gasSet' = TRUE

\* Reset that keeps counting gas where the last epoch stopped
ClearSessionKeepGas ==
    /\ txIndex' = 0
    /\ transactions' = <<>>
    /\ receipts' = <<>>
    /\ allLogs' = <<>>
    /\ totalUsedGas' = totalUsedGas
    /\ gp' = GasLimit
    /\ gasSet' = TRUE

\* lines 71-77: the index, the three buffers, the gas counter and the gas pool
ClearSession ==
    /\ txIndex' = 0
    /\ transactions' = <<>>
    /\ receipts' = <<>>
    /\ allLogs' = <<>>
    /\ totalUsedGas' = 0
    /\ gp' = GasLimit
    /\ gasSet' = TRUE

\* a Reset that goes on after the working state failed to load
ResetFailedIgnored(err) == FALSE

\* lines 67-69: an error of ethState.Reset ends the call
ResetFailed(err) == err # "nil"

Reset(root) ==
    LET err == StateResetErr(root) IN
    /\ last' = Call("Reset", err, ZeroHash, <<>>, FALSE)
    /\ UNCHANGED storeVars
    /\ IF ResetFailed(err)
       THEN UNCHANGED <<sessionVars, stateVars, applied, gasSum, committed, lateApplied,
                        applyArgs, epochRoot, calls>>
       ELSE /\ calls < MaxCalls
            /\ applyArgs' = <<>>
            /\ epochRoot' = root
            /\ calls' = calls + 1
            /\ stNonce' = root.nonces
            /\ stLogs' = <<>>
            /\ ClearSession
            /\ applied' = 0
            /\ gasSum' = 0
            /\ committed' = FALSE
            /\ lateApplied' = FALSE

(* -------------------------- ApplyTransaction --------------------------- *)
\* a signer that accepts every signature
AsMessageErrSkipped(tx) == "nil"

\* tx.AsMessage(was.signer): the sender is derived from the signature
AsMessageErr(tx) == IF tx.sigOK THEN "nil" ELSE "InvalidSignature"

AsMessage(tx) ==
    [from |-> tx.from, nonce |-> tx.nonce, to |-> tx.to, gas |-> tx.gas, data |-> tx.data]

\* the gas the execution of a payload uses, at most msg.Gas()
GasUsedBy(data) == IF data = "log" THEN 2 ELSE 1

\* logs stamped as if Prepare had not been called for the transaction
EmittedLogsUnprepared(n, prep) ==
    [i \in 1..n |-> [txHash |-> prep.thash, blockHash |-> prep.bhash, txIndex |-> 0]]

\* line 109 and the logs the engine then emits through the working state,
\* which stamps them with the hash, block hash and index Prepare was given (the
\* working state keeps these only for the engine run that follows)
EmittedLogs(n, prep) ==
    [i \in 1..n |-> [txHash |-> prep.thash, blockHash |-> prep.bhash, txIndex |-> prep.txIndex]]

EngineResult(err, gas, failed, pool, nonces, logs) ==
    [err |-> err, gas |-> gas, failed |-> failed, pool |-> pool, nonces |-> nonces, logs |-> logs]

\* core.ApplyMessage(vmenv, msg, was.gp): every result the engine may hand
\* back for msg on the working state st with the pool at pool.
\*   - a nonce mismatch fails before the pool is touched;
\*   - buying the gas dereferences the pool: a nil pool panics;
\*   - a pool smaller than msg.gas fails with ErrGasLimitReached;
\*   - a fault after the gas was bought (a value above the sender's balance)
\*     returns the error with msg.gas taken from the pool;
\*   - otherwise the message executes, reverted or not, as its payload says:
\*     the sender's nonce is bumped, the unused gas goes back to the pool, and
\*     a "log" payload leaves one log.
ApplyMessage(msg, st, pool, poolSet, prep) ==
    IF msg.nonce # st[msg.from]
    THEN {EngineResult("ErrNonce", 0, FALSE, pool, st, <<>>)}
    ELSE (IF ~poolSet THEN {EngineResult("panic", 0, FALSE, pool, st, <<>>)}
          ELSE IF pool < msg.gas
          THEN {EngineResult("ErrGasLimitReached", 0, FALSE, pool, st, <<>>)}
          ELSE {EngineResult("ErrInsufficientBalance", 0, FALSE, pool - msg.gas, st, <<>>),
                EngineResult("nil", GasUsedBy(msg.data), msg.data = "revert",
                             pool - GasUsedBy(msg.data),
                             [st EXCEPT ![msg.from] = @ + 1],
                             EmittedLogs(IF msg.data = "log" THEN 1 ELSE 0, prep))})

\* a receipt that carries a created-contract address whatever the recipient
ContractAddressAlways(tx, msg) == CreateAddress(msg.from, tx.nonce)

\* lines 128-131: the address is set when the message has no recipient (the
\* origin of the execution context is msg.From(), line 99)
ContractAddressOf(tx, msg) ==
    IF msg.to = "nil" THEN CreateAddress(msg.from, tx.nonce) ELSE ZeroAddress

\* line 133: was.ethState.GetLogs(hash), the logs the working state holds for
\* the transaction
GetLogs(logs, hash) == SelectSeq(logs, LAMBDA l : l.txHash = hash)

\* a receipt built before the gas of its transaction is counted
NewReceiptBeforeGas(tx, msg, res, cumulative, root, logs) ==
    [PostState |-> root,
     Failed |-> res.failed,
     CumulativeGasUsed |-> cumulative - res.gas,
     TxHash |-> Hash(tx),
     GasUsed |-> res.gas,
     ContractAddress |-> ContractAddressOf(tx, msg),
     Logs |-> logs,
     Bloom |-> CreateBloom(logs)]

\* lines 124-135: the receipt of an executed transaction
NewReceipt(tx, msg, res, cumulative, root, logs) ==
    [PostState |-> root,
     Failed |-> res.failed,
     CumulativeGasUsed |-> cumulative,
     TxHash |-> Hash(tx),
     GasUsed |-> res.gas,
     ContractAddress |-> ContractAddressOf(tx, msg),
     Logs |-> logs,
     Bloom |-> CreateBloom(logs)]

\* an append that forgets to advance the index
AppendAppliedNoIndex(tx, receipt) ==
    /\ txIndex' = txIndex
    /\ transactions' = Append(transactions, tx)
    /\ receipts' = Append(receipts, receipt)
    /\ allLogs' = allLogs \o receipt.Logs

\* an append that silently starts a new epoch's buffers after a Commit
AppendAfterImplicitReset(tx, receipt) ==
    /\ txIndex' = IF committed THEN 1 ELSE txIndex + 1
    /\ transactions' = IF committed THEN <<tx>> ELSE Append(transactions, tx)
    /\ receipts' = IF committed THEN <<receipt>> ELSE Append(receipts, receipt)
    /\ allLogs' = IF committed THEN receipt.Logs ELSE allLogs \o receipt.Logs

\* lines 137-140: the index and the three buffers after an executed transaction
AppendApplied(tx, receipt) ==
    /\ txIndex' = txIndex + 1
    /\ transactions' = Append(transactions, tx)
    /\ receipts' = Append(receipts, receipt)
    /\ allLogs' = allLogs \o receipt.Logs

\* a counter that is overwritten instead of added to
AddUsedGasOverwrite(total, gas) == gas

\* line 120
AddUsedGas(total, gas) == total + gas

\* a call that goes on after an engine error
ExecutedIgnoringErr(res) == TRUE

\* a call that treats a reverted execution as an error
ExecutedUnlessFailed(res) == res.err = "nil" /\ ~res.failed

\* lines 115-118: an engine error ends the call
Executed(res) == res.err = "nil"

ApplyTransaction(tx, txIndexArg, blockHash) ==
    IF AsMessageErr(tx) # "nil"
    THEN /\ last' = Call("ApplyTransaction", AsMessageErr(tx), ZeroHash, <<>>, FALSE)
         /\ UNCHANGED <<sessionVars, stateVars, storeVars, applied, gasSum,
                        committed, lateApplied, applyArgs, epochRoot, calls>>
    ELSE LET msg == AsMessage(tx)
             prep == [thash |-> Hash(tx), bhash |-> blockHash, txIndex |-> txIndexArg]
         IN \E res \in ApplyMessage(msg, stNonce, gp, gasSet, prep) :
            /\ stNonce' = res.nonces
            /\ stLogs' = stLogs \o res.logs
            /\ gp' = res.pool
            /\ last' = Call("ApplyTransaction", res.err, ZeroHash, <<>>, TRUE)
            /\ UNCHANGED <<storeVars, committed, epochRoot, calls, gasSet>>
            /\ IF ~Executed(res)
               THEN UNCHANGED <<txIndex, transactions, receipts, allLogs, totalUsedGas,
                                applied, gasSum, lateApplied, applyArgs>>
               ELSE LET total == AddUsedGas(totalUsedGas, res.gas)
                        receipt == NewReceipt(tx, msg, res, total, Root(res.nonces),
                                              GetLogs(stLogs \o res.logs, Hash(tx)))
                    IN /\ totalUsedGas' = total
                       /\ applyArgs' = Append(applyArgs, [txIndex |-> txIndexArg,
                                                          blockHash |-> blockHash])
                       /\ AppendApplied(tx, receipt)
                       /\ applied' = IF res.err = "nil" THEN applied + 1 ELSE applied
                       /\ gasSum' = gasSum + res.gas
                       /\ lateApplied' = (lateApplied \/ committed)

(* ------------------------------- Commit -------------------------------- *)
\* the stages of Commit in the order of lines 149-176
StageOrder == <<"finalize", "trieflush", "root", "head", "txs", "receipts">>

StageErr ==
    <<"StateCommitErr", "TrieCommitErr", "RootWriteErr", "HeadWriteErr",
      "TxWriteErr", "ReceiptWriteErr">>

NStages == Len(StageOrder)

\* a pipeline in which a failing stage does not stop the later ones
StageDoneNoAbort(i, failAt) == failAt = 0 \/ i # failAt

\* stage i completes when no stage up to and including i fails: each failing
\* stage returns at once (failAt = 0: no stage fails)
StageDone(i, failAt) == failAt = 0 \/ i < failAt

\* db.Put(key, value) on a region of the store
Put(db, key, value) == {e \in db : e[1] # key} \cup {<<key, value>>}

RECURSIVE BatchWrite(_, _)
\* batch.Put for every entry, then batch.Write: the batch reaches the store as
\* a whole (a batch that fails is one of the failing stages and writes nothing)
BatchWrite(db, entries) ==
    IF entries = <<>> THEN db
    ELSE BatchWrite(Put(db, Head(entries)[1], Head(entries)[2]), Tail(entries))

\* a head pointer that is the zero hash when nothing was applied
HeadHashZero(txs) == IF Len(txs) > 0 THEN Hash(txs[Len(txs)]) ELSE <<"zero", 0, "nil", 0, "">>

\* a head pointer taken from the front of the buffer
HeadHashFirst(txs) == IF Len(txs) > 0 THEN Hash(txs[1]) ELSE EmptyTxHash

\* writeHead: the hash of the last buffered transaction, or of the empty one
HeadHash(txs) == IF Len(txs) > 0 THEN Hash(txs[Len(txs)]) ELSE EmptyTxHash

\* writeTransactions: key = tx hash, value = the encoded transaction
TxEntries(txs) == [i \in 1..Len(txs) |-> <<Hash(txs[i]), EncodeTx(txs[i])>>]

\* writeReceipts: key = receiptsPrefix + tx hash, value = the storage encoding
ReceiptEntries(rs) ==
    [i \in 1..Len(rs) |-> <<<<"receipts-", rs[i].TxHash>>, EncodeReceipt(rs[i])>>]

\* a Commit that returns the root whatever happened
CommitResultAlwaysRoot(root, failAt) == root

\* what Commit returns: the root when every stage completed, else the zero hash
CommitResult(root, failAt) == IF failAt = 0 THEN root ELSE ZeroHash

\* a Commit that starts the next epoch's buffers itself
CommitSessionReset ==
    /\ txIndex' = 0
    /\ transactions' = <<>>
    /\ receipts' = <<>>
    /\ allLogs' = <<>>
    /\ UNCHANGED <<totalUsedGas, gp, gasSet>>

\* Commit assigns to no field of the session
CommitSession == UNCHANGED sessionVars

Commit(failAt) ==
    LET root == Root(stNonce) IN
    /\ trieMem' = IF StageDone(1, failAt) THEN trieMem \cup {root} ELSE trieMem
    /\ trieDisk' = IF StageDone(2, failAt) THEN trieDisk \cup {root} ELSE trieDisk
    /\ dbRoot' = IF StageDone(3, failAt) THEN {root} ELSE dbRoot
    /\ dbHead' = IF StageDone(4, failAt) THEN {HeadHash(transactions)} ELSE dbHead
    /\ dbTxs' = IF StageDone(5, failAt) THEN BatchWrite(dbTxs, TxEntries(transactions)) ELSE dbTxs
    /\ dbReceipts' = IF StageDone(6, failAt)
                     THEN BatchWrite(dbReceipts, ReceiptEntries(receipts)) ELSE dbReceipts
    /\ last' = Call("Commit", IF failAt = 0 THEN "nil" ELSE StageErr[failAt],
                    CommitResult(root, failAt),
                    SelectSeq(StageOrder, LAMBDA n : \E i \in 1..NStages :
                                  StageOrder[i] = n /\ StageDone(i, failAt)),
                    FALSE)
    /\ committed' = TRUE
    /\ calls < MaxCalls
    /\ calls' = calls + 1
    /\ CommitSession
    /\ UNCHANGED <<stateVars, applied, gasSum, lateApplied, applyArgs, epochRoot>>

(* ---------------------------- specification ---------------------------- *)
Next ==
    \/ \E root \in Roots : Reset(root)
    \/ \E tx \in Transactions, i \in TxIndexes, bh \in BlockHashes :
           ApplyTransaction(tx, i, bh)
    \/ \E failAt \in 0..NStages : Commit(failAt)

Spec == Init /\ [][Next]_vars

(* ------------------------------ properties ----------------------------- *)
Range(seq) == {seq[i] : i \in 1..Len(seq)}

RECURSIVE SumGasUsed(_)
SumGasUsed(rs) == IF rs = <<>> THEN 0 ELSE Head(rs).GasUsed + SumGasUsed(Tail(rs))

AppliedOK == last.op = "ApplyTransaction" /\ last.err = "nil"
ResetOK == last.op = "Reset" /\ last.err = "nil"
CommitOK == last.op = "Commit" /\ last.err = "nil"

\* C1: in every reachable state the transaction index equals the length of the
\* transaction buffer and of the receipt buffer, and all three equal the number
\* of ApplyTransaction calls that returned success since the last Reset.
C1_IndexMatchesBuffers ==
    /\ txIndex = Len(transactions)
    /\ Len(transactions) = Len(receipts)
    /\ txIndex = applied

\* C1 witness: a transaction applied, then a call that failed after the engine
\* took its gas from the pool, then a Commit that failed
C1_Witness ==
    /\ applied = 1
    /\ totalUsedGas = 1
    /\ gp = 0
    /\ last.op = "Commit"
    /\ last.err = "TxWriteErr"

\* C2: the stages a Commit completed are a prefix of finalize, trieflush, root,
\* head, txs, receipts; the error returned is that of the first stage after the
\* prefix (none when all completed); and a region of the store changes only if
\* its stage and every earlier stage completed.
C2_StagePrefix ==
    last.op = "Commit" =>
        \E k \in 0..NStages :
            /\ last.stages = SubSeq(StageOrder, 1, k)
            /\ last.err = (IF k = NStages THEN "nil" ELSE StageErr[k + 1])

C2_RegionsFollowStages ==
    last'.op = "Commit" =>
        LET done == Range(last'.stages) IN
        /\ trieMem' # trieMem => "finalize" \in done
        /\ trieDisk' # trieDisk => {"finalize", "trieflush"} \subseteq done
        /\ dbRoot' # dbRoot => {"finalize", "trieflush", "root"} \subseteq done
        /\ dbHead' # dbHead => {"finalize", "trieflush", "root", "head"} \subseteq done
        /\ dbTxs' # dbTxs => {"finalize", "trieflush", "root", "head", "txs"} \subseteq done
        /\ dbReceipts' # dbReceipts => done = Range(StageOrder)

C2_CommitStagesOrdered == []C2_StagePrefix /\ [][C2_RegionsFollowStages]_vars

\* C2 witness: a Commit that stopped at the head pointer write after the root
\* pointer was written
C2_Witness ==
    /\ last.op = "Commit"
    /\ last.err = "HeadWriteErr"
    /\ last.stages = <<"finalize", "trieflush", "root">>
    /\ dbRoot = {Root(stNonce)}
    /\ Len(transactions) > 0

\* C3 as stated: after a Commit that failed at the transaction batch write the
\* store holds the flushed trie nodes and the root pointer, and this Commit
\* wrote neither the head pointer nor a transaction nor a receipt.
C3_AsStated ==
    (last.op = "Commit" /\ last.err = "TxWriteErr") =>
        /\ Root(stNonce) \in trieDisk
        /\ dbRoot = {Root(stNonce)}
        /\ "head" \notin Range(last.stages)
        /\ "txs" \notin Range(last.stages)
        /\ "receipts" \notin Range(last.stages)

\* C3 amended: after a Commit that failed at the transaction batch write the
\* store holds the flushed trie nodes, the root pointer and the head pointer
\* (the hash of the last buffered transaction, or of the empty transaction),
\* and this Commit wrote no transaction entry and no receipt entry.
C3_AfterTxWriteErr ==
    (last.op = "Commit" /\ last.err = "TxWriteErr") =>
        /\ Root(stNonce) \in trieDisk
        /\ dbRoot = {Root(stNonce)}
        /\ dbHead = {IF transactions = <<>> THEN EmptyTxHash
                     ELSE Hash(transactions[Len(transactions)])}
        /\ last.stages = <<"finalize", "trieflush", "root", "head">>

C3_NoBatchWritten ==
    (last'.op = "Commit" /\ last'.err = "TxWriteErr") =>
        /\ dbTxs' = dbTxs
        /\ dbReceipts' = dbReceipts

C3_SplitAfterTxWriteErr == []C3_AfterTxWriteErr /\ [][C3_NoBatchWritten]_vars

\* C3 witness: two buffered transactions, Commit failed at the transaction
\* batch write, the head pointer is the second one and nothing of the batch is
\* in the store
C3_Witness ==
    /\ last.op = "Commit"
    /\ last.err = "TxWriteErr"
    /\ Len(transactions) = 2
    /\ dbHead = {Hash(transactions[2])}
    /\ dbTxs = {}
    /\ dbReceipts = {}

\* C4: a Commit that returns success returns the root of the working state, the
\* trie of that root is flushed, the root pointer holds it, the head pointer is
\* written and every buffered transaction and receipt is stored under its key;
\* a Commit that fails returns an error and the zero hash.
C4_CommitResult ==
    last.op = "Commit" =>
        IF last.err = "nil"
        THEN /\ last.ret = Root(stNonce)
             /\ last.ret # ZeroHash
             /\ last.ret \in trieDisk
             /\ dbRoot = {last.ret}
             /\ dbHead = {IF transactions = <<>> THEN EmptyTxHash
                          ELSE Hash(transactions[Len(transactions)])}
             /\ \A i \in 1..Len(transactions) :
                    <<Hash(transactions[i]), EncodeTx(transactions[i])>> \in dbTxs
             /\ \A i \in 1..Len(receipts) :
                    <<<<"receipts-", receipts[i].TxHash>>, EncodeReceipt(receipts[i])>>
                        \in dbReceipts
        ELSE last.ret = ZeroHash

\* C4 witness: a successful Commit of two buffered transactions
C4_Witness ==
    /\ CommitOK
    /\ Len(transactions) = 2
    /\ Cardinality(dbReceipts) = 2

\* C5: an ApplyTransaction whose transaction needs more gas than the pool has
\* left returns an execution error and leaves the transaction, receipt and log
\* buffers as they were.
C5_PoolExhausted ==
    (last'.op = "ApplyTransaction" /\ gasSet) =>
        \A tx \in Transactions :
            (tx.sigOK /\ tx.nonce = stNonce[tx.from] /\ gp < tx.gas) =>
                \A i \in TxIndexes, bh \in BlockHashes :
                    ApplyTransaction(tx, i, bh) =>
                        /\ last'.err = "ErrGasLimitReached"
                        /\ UNCHANGED <<transactions, receipts, allLogs>>

C5_GasPoolExceededLeavesBuffers == [][C5_PoolExhausted]_vars

\* C5 witness: the pool ran out with a transaction, a receipt and a log buffered
C5_Witness ==
    /\ last.op = "ApplyTransaction"
    /\ last.err = "ErrGasLimitReached"
    /\ Len(transactions) > 0
    /\ allLogs # <<>>

\* C6: an ApplyTransaction whose message cannot be derived returns that error
\* and changes nothing: not the buffers, the index, the gas pool or the gas
\* counter, and not the working state (no Prepare, no execution).
C6_BadSignature ==
    last'.op = "ApplyTransaction" =>
        \A tx \in Transactions :
            ~tx.sigOK =>
                \A i \in TxIndexes, bh \in BlockHashes :
                    ApplyTransaction(tx, i, bh) =>
                        /\ last'.err = "InvalidSignature"
                        /\ ~last'.prepared
                        /\ UNCHANGED <<sessionVars, stateVars, storeVars>>

C6_SignatureFailureTouchesNothing == [][C6_BadSignature]_vars

\* C6 witness: the signature failed in the middle of an epoch
C6_Witness ==
    /\ last.op = "ApplyTransaction"
    /\ last.err = "InvalidSignature"
    /\ Len(transactions) = 1
    /\ allLogs # <<>>

\* C7: the cumulative gas counter equals the sum of the gas used by the
\* transactions applied successfully since the last Reset, reverted ones
\* included; it never decreases except by a successful Reset, and a call that
\* returns an error leaves it as it was.
C7_GasIsSum ==
    /\ totalUsedGas = gasSum
    /\ totalUsedGas = SumGasUsed(receipts)

C7_GasMonotone ==
    /\ ~(last'.op = "Reset" /\ last'.err = "nil") => totalUsedGas' >= totalUsedGas
    /\ (last'.op = "ApplyTransaction" /\ last'.err # "nil") => totalUsedGas' = totalUsedGas

C7_CumulativeGas == []C7_GasIsSum /\ [][C7_GasMonotone]_vars

\* C7 witness: a reverted transaction and a logging one, three gas in all
C7_Witness ==
    /\ Len(receipts) = 2
    /\ receipts[1].Failed
    /\ receipts[2].GasUsed = 2
    /\ totalUsedGas = 3

\* C8: after a Reset that returned success the three buffers are empty, the
\* index and the gas counter are zero and the gas pool is the gas limit.
C8_ResetClears ==
    ResetOK =>
        /\ transactions = <<>>
        /\ receipts = <<>>
        /\ allLogs = <<>>
        /\ txIndex = 0
        /\ totalUsedGas = 0
        /\ gasSet
        /\ gp = GasLimit

\* C8 witness: a Reset after a Commit that wrote transactions and then failed
\* at the receipt batch
C8_Witness ==
    /\ ResetOK
    /\ dbTxs # {}
    /\ dbReceipts = {}
    /\ stNonce # InitialState

\* C9: Commit, successful or not, leaves the buffers, the index, the gas pool
\* and the gas counter as they were; a buffer gets shorter only by a Reset
\* that returned success.
C9_CommitFrame ==
    /\ last'.op = "Commit" => UNCHANGED sessionVars
    /\ (\/ Len(transactions') < Len(transactions)
        \/ Len(receipts') < Len(receipts)
        \/ Len(allLogs') < Len(allLogs)) => (last'.op = "Reset" /\ last'.err = "nil")

C10_NoImplicitReset ==
    /\ last'.op = "Commit" => committed'
    /\ (committed /\ ~committed') => (last'.op = "Reset" /\ last'.err = "nil")
    /\ (committed /\ last'.op = "ApplyTransaction" /\ last'.err = "nil") =>
           /\ Len(transactions') = Len(transactions) + 1
           /\ SubSeq(transactions', 1, Len(transactions)) = transactions
           /\ receipts'[Len(receipts')].TxHash = Hash(transactions'[Len(transactions')])
           /\ Len(receipts') = Len(receipts) + 1
           /\ SubSeq(receipts', 1, Len(receipts)) = receipts
           /\ txIndex' = txIndex + 1
    /\ (last'.op = "Commit" /\ last'.err = "nil") =>
           /\ \A i \in 1..Len(transactions) : \E e \in dbTxs' : e[1] = Hash(transactions[i])
           /\ \A i \in 1..Len(receipts) :
                  \E e \in dbReceipts' : e[1] = <<"receipts-", receipts[i].TxHash>>

C11_CommitAfterReset ==
    (ResetOK /\ last'.op = "Commit" /\ Len(last'.stages) = NStages) =>
        /\ transactions = <<>> /\ receipts = <<>>
        /\ last'.err = "nil"
        /\ last'.ret = epochRoot
        /\ dbRoot' = {epochRoot}
        /\ dbHead' = {EmptyTxHash}
        /\ dbTxs' = dbTxs
        /\ dbReceipts' = dbReceipts

C11_EmptyEpochCommit == [][C11_CommitAfterReset]_vars

\* C11 witness: a successful Commit of an epoch that was reset and in which the
\* engine never ran: the head pointer is the hash of the empty transaction and
\* the store holds no transaction and no receipt
C11_Witness ==
    /\ CommitOK
    /\ gasSet /\ gp = GasLimit
    /\ transactions = <<>>
    /\ last.ret = epochRoot
    /\ dbHead = {EmptyTxHash}
    /\ dbTxs = {} /\ dbReceipts = {}

\* C12: an ApplyTransaction that returns no error, reverted or not, appended
\* the transaction and its receipt, advanced the index by one and added the gas
\* the engine reported to the cumulative counter; the receipt carries the
\* failure flag exactly when the execution reverted. A transaction whose
\* execution reverts is applied this way: the call returns an error only when
\* the engine does.
C12_RevertIsApplied ==
    /\ (last'.op = "ApplyTransaction" /\ last'.err = "nil") =>
           LET n == Len(transactions')
               tx == transactions'[n]
               r == receipts'[n]
           IN /\ n = Len(transactions) + 1
              /\ Len(receipts') = Len(receipts) + 1
              /\ SubSeq(transactions', 1, n - 1) = transactions
              /\ SubSeq(receipts', 1, n - 1) = receipts
              /\ txIndex' = txIndex + 1
              /\ r.TxHash = Hash(tx)
              /\ r.Failed = (tx.data = "revert")
              /\ r.GasUsed = GasUsedBy(tx.data)
              /\ totalUsedGas' = totalUsedGas + r.GasUsed
              /\ r.CumulativeGasUsed = totalUsedGas'
    /\ (last'.op = "ApplyTransaction" /\ gasSet /\ last'.err # "ErrInsufficientBalance") =>
           \A tx \in Transactions :
               (/\ tx.data = "revert"
                /\ tx.sigOK
                /\ tx.nonce = stNonce[tx.from]
                /\ gp >= tx.gas) =>
                   \A i \in TxIndexes, bh \in BlockHashes :
                       ApplyTransaction(tx, i, bh) =>
                           /\ last'.err = "nil"
                           /\ transactions' = Append(transactions, tx)
                           /\ receipts'[Len(receipts')].Failed

C12_RevertedCounts == [][C12_RevertIsApplied]_vars

\* C12 witness: a transaction that succeeded and after it one that reverted,
\* both buffered, the gas of both counted
C12_Witness ==
    /\ AppliedOK
    /\ Len(receipts) = 2
    /\ ~receipts[1].Failed
    /\ receipts[2].Failed
    /\ transactions[2].data = "revert"
    /\ txIndex = 2
    /\ totalUsedGas = receipts[1].GasUsed + receipts[2].GasUsed

\* what a session that starts from the state nonces with empty buffers makes of
\* the transactions txs applied with the arguments args: the receipts, the
\* logs and the state it ends in
RECURSIVE Replay(_, _, _, _, _)
Replay(nonces, total, logs, txs, args) ==
    IF txs = <<>>
    THEN [receipts |-> <<>>, logs |-> <<>>, nonces |-> nonces]
    ELSE LET tx == Head(txs)
             msg == AsMessage(tx)
             prep == [thash |-> Hash(tx), bhash |-> Head(args).blockHash,
                      txIndex |-> Head(args).txIndex]
             ok == {r \in ApplyMessage(msg, nonces, GasLimit, TRUE, prep) : r.err = "nil"}
         IN IF ok = {}
            THEN [receipts |-> <<"none">>, logs |-> <<>>, nonces |-> nonces]
            ELSE LET res == CHOOSE r \in ok : TRUE
                     receipt == NewReceipt(tx, msg, res, total + res.gas, Root(res.nonces),
                                           GetLogs(logs \o res.logs, Hash(tx)))
                     rest == Replay(res.nonces, total + res.gas, logs \o res.logs,
                                    Tail(txs), Tail(args))
                 IN [receipts |-> <<receipt>> \o rest.receipts,
                     logs |-> res.logs \o rest.logs,
                     nonces |-> rest.nonces]

C14_ContractAddress ==
    \A i \in 1..Len(receipts) :
        /\ i <= Len(transactions)
        /\ receipts[i].ContractAddress =
               IF transactions[i].to = "nil"
               THEN CreateAddress(transactions[i].from, transactions[i].nonce)
               ELSE ZeroAddress
        /\ (receipts[i].ContractAddress = ZeroAddress) = (transactions[i].to # "nil")

\* C14 witness: a reverted creation with its contract address, then a call
\* with none
C14_Witness ==
    /\ Len(receipts) = 2
    /\ receipts[1].Failed
    /\ receipts[1].ContractAddress = CreateAddress("a", 0)
    /\ transactions[2].to = "c"
    /\ receipts[2].ContractAddress = ZeroAddress

\* C15: a Commit that reaches the head-pointer write sets the head pointer to
\* the hash of the last transaction of the buffer, or to the hash of the empty
\* transaction when the buffer is empty, and a Commit that does not reach it
\* leaves the pointer alone; an ApplyTransaction that returns an error leaves
\* the buffer as it was, so the pointer is never the hash of a transaction of
\* a failed call.
C15_HeadIsLast ==
    /\ last'.op = "Commit" =>
           IF \E k \in 1..Len(last'.stages) : last'.stages[k] = "head"
           THEN dbHead' = {IF transactions = <<>> THEN EmptyTxHash
                           ELSE Hash(transactions[Len(transactions)])}
           ELSE dbHead' = dbHead
    /\ last'.op # "Commit" => dbHead' = dbHead
    /\ (last'.op = "ApplyTransaction" /\ last'.err # "nil") => transactions' = transactions
    /\ Len(transactions) = applied

C15_HeadPointer == [][C15_HeadIsLast]_vars

\* C15 witness: one transaction applied, then a call that failed after the gas
\* was bought, then a Commit: the head pointer is the applied transaction
C15_Witness ==
    /\ CommitOK
    /\ Len(transactions) = 1
    /\ totalUsedGas = 1
    /\ gp = 0
    /\ dbHead = {Hash(transactions[1])}

\* C16: the receipt buffer is as long as the transaction buffer; the i-th
\* receipt carries the hash of the i-th transaction, the gas the engine
\* reported for it and, as cumulative gas, the sum of the gas of the receipts
\* up to it; the cumulative gas never decreases along the buffer and that of
\* the last receipt is the session's counter.
C16_ReceiptsParallel ==
    /\ Len(receipts) = Len(transactions)
    /\ \A i \in 1..Len(receipts) :
           /\ receipts[i].TxHash = Hash(transactions[i])
           /\ receipts[i].GasUsed = GasUsedBy(transactions[i].data)
           /\ receipts[i].CumulativeGasUsed = SumGasUsed(SubSeq(receipts, 1, i))
           /\ i > 1 => receipts[i - 1].CumulativeGasUsed <= receipts[i].CumulativeGasUsed
    /\ receipts # <<>> => receipts[Len(receipts)].CumulativeGasUsed = totalUsedGas

\* C16 witness: two receipts, the cumulative gas 1 then 3
C16_Witness ==
    /\ Len(receipts) = 2
    /\ receipts[1].CumulativeGasUsed = 1
    /\ receipts[2].GasUsed = 2
    /\ receipts[2].CumulativeGasUsed = 3
    /\ totalUsedGas = 3

\* C17: from a Reset on, the gas pool and the cumulative gas counter add up to
\* the gas limit and the counter is at most the gas limit, also after an
\* ApplyTransaction that returned an error, which leaves the pool, the counter
\* and the index as they were.
C17_AsStated ==
    gasSet =>
        /\ gp + totalUsedGas = GasLimit
        /\ totalUsedGas <= GasLimit

\* C18: a session that was never Reset is in the state a Reset to the initial
\* root leaves (empty buffers, index zero, counter zero, the pool at the gas
\* limit), so its first ApplyTransaction goes as the first one after that Reset
\* does: the engine gets a pool it can draw from.
C18_AsStated ==
    (~gasSet /\ last.op = "ApplyTransaction") => last.err # "panic"

\* C19: a Reset that returns an error leaves the session, the working state and
\* the store as they were: the buffers, the index, the pool and the counter,
\* and the working state is still bound to the root it had.
C19_FailedReset ==
    (last'.op = "Reset" /\ last'.err # "nil") =>
        /\ UNCHANGED <<sessionVars, stateVars, storeVars>>
        /\ epochRoot' = epochRoot

C19_FailedResetTouchesNothing == [][C19_FailedReset]_vars

\* C19 witness: a Reset to a root that cannot be loaded, in a session that
\* holds two transactions and a drawn pool
C19_Witness ==
    /\ last.op = "Reset"
    /\ last.err = "MissingTrieNode"
    /\ Len(transactions) = 2
    /\ Len(receipts) = 2
    /\ gp < GasLimit
    /\ stNonce # epochRoot.nonces

\* C20 as stated: every log of the i-th receipt carries the position of the
\* i-th transaction in the buffer as its index.
C20_AsStated ==
    \A i \in 1..Len(receipts) : \A j \in 1..Len(receipts[i].Logs) :
        receipts[i].Logs[j].txIndex = i - 1

\* the logs of the receipts, in order
RECURSIVE ReceiptLogs(_)
ReceiptLogs(rs) == IF rs = <<>> THEN <<>> ELSE Head(rs).Logs \o ReceiptLogs(Tail(rs))

\* C20: every log of the i-th receipt carries the hash of the i-th transaction
\* and the block hash and the index that were passed to the ApplyTransaction
\* call of that transaction; the log buffer is the logs of the receipts, in
\* order.
C20_LogsCarryArguments ==
    /\ Len(applyArgs) = Len(receipts)
    /\ \A i \in 1..Len(receipts) : \A j \in 1..Len(receipts[i].Logs) :
           /\ receipts[i].Logs[j].txHash = Hash(transactions[i])
           /\ receipts[i].Logs[j].txHash = receipts[i].TxHash
           /\ receipts[i].Logs[j].txIndex = applyArgs[i].txIndex
           /\ receipts[i].Logs[j].blockHash = applyArgs[i].blockHash
    /\ \A i \in 1..Len(receipts) : transactions[i].data = "log" => receipts[i].Logs # <<>>
    /\ allLogs = ReceiptLogs(receipts)

\* C20 witness: a logging transaction applied second with index 0: its log,
\* the only one of the buffer, carries its hash and the index 0
C20_Witness ==
    /\ Len(receipts) = 2
    /\ receipts[1].Logs = <<>>
    /\ Len(receipts[2].Logs) = 1
    /\ receipts[2].Logs[1].txHash = Hash(transactions[2])
    /\ receipts[2].Logs[1].txIndex = 0
    /\ applyArgs[2].txIndex = 0
    /\ allLogs = receipts[2].Logs

====
